---- MODULE Spec2Model ----
(***************************************************************************)
(* Replay-resumable event ingestion of salesforce_client.                  *)
(*                                                                         *)
(* Part I  : the batch cycle, TimerPoller.main, with PubSubClient,         *)
(*           CursorStore, write_events and upload_file.                    *)
(* Part II : the continuous subscriber of reference_subscriber.py.        *)
(***************************************************************************)
EXTENDS Integers, Sequences, FiniteSets, TLC

(***************************************************************************)
(* Bounds and configuration                                                *)
(***************************************************************************)

\* settings.sf_topic_names: the configured topics, in their configured order.
Topics == <<"A", "B", "C">>

TopicSet == {Topics[i] : i \in DOMAIN Topics}

\* The highest position the remote service hands out for a topic.
MaxPos == 2

\* The failures and irregular envelopes (undecodable, without payload, empty
\* replay id) the environment injects in one run.
MaxFaults == 1

\* max_events=100 passed by main to fetch_events_via_pubsub.
MaxEvents == 100

\* What an envelope of a fetch response can be: decodable, undecodable,
\* without payload, or decodable and carrying an empty replay id.
Kinds == {"ok", "bad", "nopayload", "emptyid"}

\* Schema ids the remote service knows.
SchemaIds == {"s1", "s2"}

\* GetTopic's schema_id of each topic (two topics share one schema).
TopicSchema(T) == IF T = "C" THEN "s2" ELSE "s1"

(***************************************************************************)
(* Values                                                                  *)
(***************************************************************************)

\* Optional[bytes]: None, or a byte string (itself a sequence of bytes).
None == <<>>

Some(b) == <<b>>

\* Python's truth value of an Optional[bytes]: None and b"" are both false.
Truthy(opt) == opt /= None /\ opt[1] /= <<>>

\* The replay id the remote service gives position p (big-endian bytes).
BytesOf(p) == <<p>>

\* int.from_bytes(b, byteorder="big", signed=False)
IntFromBytes(b) == IF b = <<>> THEN 0 ELSE b[1]

Take(s, n) == IF Len(s) <= n THEN s ELSE SubSeq(s, 1, n)

Last(s) == s[Len(s)]

(***************************************************************************)
(* Part I: the batch cycle                                                 *)
(***************************************************************************)

VARIABLES
  mock_mode,   \* settings.mock_mode
  cursors,     \* the rows (topic, replay_id) of the cursors table
  stored,      \* the rows committed to an events table by write_events
  pc,          \* where main is
  ti,          \* index of the topic the loop of main is at
  collected,   \* main's collected
  latest,      \* main's latest_per_topic
  ci,          \* index in latest_per_topic.items() of the cursor loop
  flush,       \* this cycle's write_events call: how it ended, for which topics
  setCalls,    \* the topics CursorStore.set was called for in this cycle
  issued,      \* per topic, the FetchRequest sent in this cycle
  outcome,     \* per topic, how its fetch ended in this cycle
  schemaOk,    \* per schema id, successful schema fetches in this cycle
  remote,      \* per topic, what the remote service answered in this cycle
  abortedBy,   \* the exception that ended main, if one did
  faults       \* failures and irregular envelopes injected so far

bvars == <<mock_mode, cursors, stored, pc, ti, collected, latest, ci,
           flush, setCalls, issued, outcome, schemaOk, remote, abortedBy,
           faults>>

durable == <<mock_mode, cursors, stored>>

\* An envelope of a fetch response: its position in the topic and its kind.
Envelope(p, k) == [pos |-> p, kind |-> k]

\* ev.replay_id of an envelope.
EnvReplayId(e) == IF e.kind = "emptyid" THEN <<>> ELSE BytesOf(e.pos)

\* The fetch response of the remote service to a request starting after
\* position s: consecutive positions, of the kinds ks.
Response(s, ks) == [i \in 1..Len(ks) |-> Envelope(s + i, ks[i])]

\* Mutant: "if replay_id is not None", any stored value is a CUSTOM start.
FetchRequestIfPresent(T, replay_id) ==
  IF replay_id /= None
  THEN [topic_name |-> T, replay_preset |-> "CUSTOM", replay_id |-> replay_id[1]]
  ELSE [topic_name |-> T, replay_preset |-> "EARLIEST", replay_id |-> <<>>]

\* The FetchRequest subscribe_to_events builds for a stored replay id.
FetchRequest(T, replay_id) ==
  IF Truthy(replay_id)
  THEN [topic_name |-> T, replay_preset |-> "CUSTOM", replay_id |-> replay_id[1]]
  ELSE [topic_name |-> T, replay_preset |-> "EARLIEST", replay_id |-> <<>>]

\* request_generator of subscribe_to_events: the requests sent on the
\* Subscribe stream of a topic, the one FetchRequest and no other.
RequestGenerator(T, replay_id) == <<FetchRequest(T, replay_id)>>

\* Where the remote service starts for a request: after the replay id of a
\* CUSTOM request, at the beginning for EARLIEST.
StartOf(req) ==
  IF req.replay_preset = "CUSTOM" THEN IntFromBytes(req.replay_id) ELSE 0

\* The envelopes subscribe_to_events skips: no payload, or a decode error.
Skipped(e) == e.kind = "nopayload" \/ e.kind = "bad"

\* What subscribe_to_events yields for the one response it reads (nothing
\* for a response without events).
SubscribeToEvents(T, resp) ==
  LET kept == SelectSeq(resp, LAMBDA e : ~Skipped(e))
  IN  [i \in 1..Len(kept) |->
         [topic |-> T, replay_id |-> EnvReplayId(kept[i]), event_id |-> kept[i].pos]]

\* fetch_events_via_pubsub: the yielded events, cut at max_events.
FetchEventsViaPubsub(T, resp, max_events) ==
  Take(SubscribeToEvents(T, resp), max_events)

\* load_mock_events_for_topic: the n events of the topic's JSON file.
LoadMockEvents(T, n) ==
  [i \in 1..n |-> [topic |-> T, replay_id |-> BytesOf(i), event_id |-> i]]

\* The rows write_events inserts for a batch.
Rows(events) == {events[i] : i \in 1..Len(events)}

\* latest_per_topic.items(), in insertion order.
LatestItems == SelectSeq(Topics, LAMBDA t : latest[t] /= None)

NoTopic == [t \in TopicSet |-> None]

\* The topics with an event in a batch.
TopicsOf(events) == {events[i].topic : i \in 1..Len(events)}

\* The row of the cursors table for a topic.
CursorRow(T, replay_id) == [topic |-> T, replay_id |-> replay_id]

\* CursorStore.get: the replay_id of the row of the topic, None without a
\* row.
CursorGet(table, T) ==
  IF \E row \in table : row.topic = T
    THEN Some((CHOOSE row \in table : row.topic = T).replay_id)
    ELSE None

\* Mutant: INSERT ... ON CONFLICT(topic) DO NOTHING.
CursorSetKeepsFirst(table, T, replay_id) ==
  IF \E row \in table : row.topic = T
    THEN table
    ELSE table \cup {CursorRow(T, replay_id)}

\* CursorStore.set: INSERT ... ON CONFLICT(topic) DO UPDATE SET replay_id.
\* topic is the primary key of the table.
CursorSet(table, T, replay_id) ==
  IF \E row \in table : row.topic = T
    THEN {IF row.topic = T THEN CursorRow(T, replay_id) ELSE row : row \in table}
    ELSE table \cup {CursorRow(T, replay_id)}

NotFlushed == [status |-> "none", topics |-> {}, rows |-> <<>>, count |-> 0]

\* Mutant: the rows inserted before the exception stay in the table.
CommittedWithoutRollback(inserted, raised) == Rows(inserted)

\* What the transaction of write_events leaves in the events table: the
\* inserted rows after the commit, nothing after the rollback that the
\* connection's context manager does when the block raises.
Committed(inserted, raised) == IF raised THEN {} ELSE Rows(inserted)

\* Nothing was asked of the remote service for a topic yet.
NoAnswer == [can_subscribe |-> "unknown", delivered |-> 0, irregular |-> 0]

\* GetTopic answered for T with can_subscribe = can, and the fetch response
\* (if the Subscribe stream delivered one) held the envelopes envs: how
\* many, and how many of them not of the kind "ok".
Answered(T, can, envs) ==
  remote' = [remote EXCEPT ![T] =
               [can_subscribe |-> can,
                delivered |-> Len(envs),
                irregular |-> Cardinality({i \in DOMAIN envs : envs[i].kind /= "ok"})]]

\* The environment injects k more failures or irregular envelopes.
Inject(k) ==
  /\ faults + k <= MaxFaults
  /\ faults' = faults + k

\* The irregular envelopes among the kinds ks.
Irregular(ks) == Cardinality({i \in DOMAIN ks : ks[i] /= "ok"})

BInit ==
  /\ mock_mode \in BOOLEAN
  /\ cursors = {}
  /\ stored = {}
  /\ pc = "idle"
  /\ ti = 1
  /\ collected = <<>>
  /\ latest = NoTopic
  /\ ci = 1
  /\ flush = NotFlushed
  /\ setCalls = <<>>
  /\ issued = NoTopic
  /\ outcome = [t \in TopicSet |-> "none"]
  /\ schemaOk = [s \in SchemaIds |-> 0]
  /\ remote = [t \in TopicSet |-> NoAnswer]
  /\ abortedBy = "none"
  /\ faults = 0

\* main is entered (a timer tick): fresh locals.
StartCycle ==
  /\ pc \in {"idle", "done", "aborted"}
  /\ pc' = IF mock_mode THEN "topic" ELSE "auth"
  /\ flush' = NotFlushed
  /\ setCalls' = <<>>
  /\ abortedBy' = "none"
  /\ UNCHANGED <<ti, collected, latest, ci, issued, outcome, schemaOk, remote>>
  /\ UNCHANGED <<durable, faults>>

\* main is left: its locals are gone.
Leave ==
  /\ ti' = 1
  /\ collected' = <<>>
  /\ latest' = NoTopic
  /\ ci' = 1
  /\ issued' = NoTopic
  /\ outcome' = [t \in TopicSet |-> "none"]
  /\ schemaOk' = [s \in SchemaIds |-> 0]
  /\ remote' = [t \in TopicSet |-> NoAnswer]

\* An exception leaves main.
Abort(why) ==
  /\ pc' = "aborted"
  /\ abortedBy' = why
  /\ Inject(1)
  /\ Leave

AuthOk ==
  /\ pc = "auth"
  /\ pc' = "topic"
  /\ UNCHANGED <<durable, ti, collected, latest, ci, flush, setCalls, issued,
                 outcome, schemaOk, remote, abortedBy, faults>>

\* Mutant: the exception of get_access_token is logged and main goes on.
AuthFailsContinues ==
  /\ pc = "auth"
  /\ pc' = "topic"
  /\ abortedBy' = "auth"
  /\ Inject(1)
  /\ UNCHANGED <<durable, ti, collected, latest, ci, flush, setCalls, issued,
                 outcome, schemaOk, remote>>

AuthFails ==
  /\ pc = "auth"
  /\ Abort("auth")
  /\ UNCHANGED <<durable, flush, setCalls>>

\* The loop of main moves to the next topic, or leaves the loop.
NextTopic ==
  /\ ti' = ti + 1
  /\ pc' = IF ti = Len(Topics) THEN "flush" ELSE "topic"

\* cursor_store.get raises: it is outside the try of the loop.
GetFails ==
  /\ pc = "topic"
  /\ Abort("get")
  /\ UNCHANGED <<durable, flush, setCalls>>

\* Mutant: the candidate checkpoint of a topic is the replay id of the first
\* event of its fetch.
CollectKeepsFirst(T, events) ==
  /\ collected' = collected \o events
  /\ latest' = IF events = <<>> THEN latest
               ELSE [latest EXCEPT ![T] = Some(events[1].replay_id)]

\* Mutant: a candidate checkpoint is recorded for every fetched topic, an
\* empty one for a topic without events.
CollectTracksEveryTopic(T, events) ==
  /\ collected' = collected \o events
  /\ latest' = [latest EXCEPT ![T] = IF events = <<>> THEN Some(<<>>)
                                      ELSE Some(Last(events).replay_id)]

\* The events of one topic enter collected and latest_per_topic.
Collect(T, events) ==
  /\ collected' = collected \o events
  /\ latest' = IF events = <<>> THEN latest
               ELSE [latest EXCEPT ![T] = Some(Last(events).replay_id)]

\* Mutant: the loop has no try/except, a failing topic ends main.
TopicFailedRaises(T) ==
  /\ outcome' = [outcome EXCEPT ![T] = "error"]
  /\ pc' = "aborted"
  /\ ti' = ti
  /\ Inject(1)
  /\ UNCHANGED <<abortedBy, collected, latest>>

\* The except clause of the loop: the topic is logged and skipped.
TopicFailed(T) ==
  /\ outcome' = [outcome EXCEPT ![T] = "error"]
  /\ NextTopic
  /\ Inject(1)
  /\ UNCHANGED <<abortedBy, collected, latest>>

\* mock mode: the topic's events come from its JSON file.
LoadMock ==
  /\ pc = "topic"
  /\ mock_mode
  /\ \E n \in 0..MaxPos :
       /\ Collect(Topics[ti], LoadMockEvents(Topics[ti], n))
       /\ Answered(Topics[ti], "unknown", Response(0, [i \in 1..n |-> "ok"]))
  /\ outcome' = [outcome EXCEPT ![Topics[ti]] = "ok"]
  /\ NextTopic
  /\ UNCHANGED <<durable, ci, flush, setCalls, issued, schemaOk, abortedBy,
                 faults>>

\* get_topic_info raises.
GetTopicFails ==
  /\ pc = "topic"
  /\ ~mock_mode
  /\ TopicFailed(Topics[ti])
  /\ UNCHANGED <<durable, ci, flush, setCalls, issued, schemaOk, remote>>

\* fetch_avro_schema_via_rest raises after trying every version.
SchemaFetchFails ==
  /\ pc = "topic"
  /\ ~mock_mode
  /\ Answered(Topics[ti], "yes", <<>>)
  /\ TopicFailed(Topics[ti])
  /\ UNCHANGED <<durable, ci, flush, setCalls, issued, schemaOk>>

\* The schema was fetched and the Subscribe request of the topic is sent.
Subscribed(T) ==
  /\ schemaOk' = [schemaOk EXCEPT ![TopicSchema(T)] = @ + 1]
  /\ issued' = [issued EXCEPT ![T] =
                  Some(RequestGenerator(T, CursorGet(cursors, T))[1])]

\* The Subscribe stream raises grpc.RpcError.
SubscribeFails ==
  /\ pc = "topic"
  /\ ~mock_mode
  /\ Answered(Topics[ti], "yes", <<>>)
  /\ Subscribed(Topics[ti])
  /\ TopicFailed(Topics[ti])
  /\ UNCHANGED <<durable, ci, flush, setCalls>>

\* GetTopic answers with can_subscribe false.  subscribe_to_events reads
\* only the schema_id of the answer: the schema is fetched and the Subscribe
\* request sent, which the remote service refuses with a grpc.RpcError.
SubscribeDenied ==
  /\ pc = "topic"
  /\ ~mock_mode
  /\ Answered(Topics[ti], "no", <<>>)
  /\ Subscribed(Topics[ti])
  /\ TopicFailed(Topics[ti])
  /\ UNCHANGED <<durable, ci, flush, setCalls>>

\* Mutant: the events received before the exception enter the batch.
FetchFailsMidStreamKeepsEvents ==
  /\ pc = "topic"
  /\ ~mock_mode
  /\ LET T == Topics[ti]
         s == StartOf(FetchRequest(T, CursorGet(cursors, T)))
     IN  /\ Inject(1)
         /\ Subscribed(T)
         /\ \E n \in 1..(MaxPos - s) :
              /\ Answered(T, "yes", Response(s, [i \in 1..n |-> "ok"]))
              /\ Collect(T, SubscribeToEvents(T, Response(s, [i \in 1..n |-> "ok"])))
         /\ outcome' = [outcome EXCEPT ![T] = "error"]
  /\ NextTopic
  /\ UNCHANGED <<durable, ci, flush, setCalls, abortedBy>>

\* The response with its events was received and fetch_events_via_pubsub
\* raises all the same (an exception inside the generator after a yield, or
\* client.close() raising in the finally clause): the list it was filling
\* is lost, main's except clause logs the topic.
FetchFailsMidStream ==
  /\ pc = "topic"
  /\ ~mock_mode
  /\ LET T == Topics[ti]
         s == StartOf(FetchRequest(T, CursorGet(cursors, T)))
     IN  /\ TopicFailed(T)
         /\ Subscribed(T)
         /\ \E n \in 1..(MaxPos - s) :
              Answered(T, "yes", Response(s, [i \in 1..n |-> "ok"]))
  /\ UNCHANGED <<durable, ci, flush, setCalls>>

\* Mutant: the candidate checkpoint of the topic is the position of the
\* last envelope of the response, yielded or skipped.
FetchOkTracksLastEnvelope ==
  /\ pc = "topic"
  /\ ~mock_mode
  /\ LET T == Topics[ti]
         s == StartOf(FetchRequest(T, CursorGet(cursors, T)))
     IN  /\ Subscribed(T)
         /\ \E n \in 0..(MaxPos - s) : \E ks \in [1..n -> Kinds] :
              /\ Inject(Irregular(ks))
              /\ collected' = collected \o
                                FetchEventsViaPubsub(T, Response(s, ks), MaxEvents)
              /\ latest' = IF n = 0 THEN latest
                           ELSE [latest EXCEPT ![T] = Some(BytesOf(s + n))]
              /\ Answered(T, "yes", Response(s, ks))
         /\ outcome' = [outcome EXCEPT ![T] = "ok"]
  /\ NextTopic
  /\ UNCHANGED <<mock_mode, cursors, stored, ci, flush, setCalls, abortedBy>>

\* The Subscribe stream delivers one response; its events are collected.
FetchOk ==
  /\ pc = "topic"
  /\ ~mock_mode
  /\ LET T == Topics[ti]
         s == StartOf(FetchRequest(T, CursorGet(cursors, T)))
     IN  /\ Subscribed(T)
         /\ \E n \in 0..(MaxPos - s) : \E ks \in [1..n -> Kinds] :
              /\ Inject(Irregular(ks))
              /\ Collect(T, FetchEventsViaPubsub(T, Response(s, ks), MaxEvents))
              /\ Answered(T, "yes", Response(s, ks))
         /\ outcome' = [outcome EXCEPT ![T] = "ok"]
  /\ NextTopic
  /\ UNCHANGED <<mock_mode, cursors, stored, ci, flush, setCalls, abortedBy>>

\* Mutant: the flush is skipped whether or not events were collected.
NoEventsUnguarded ==
  /\ pc = "flush"
  /\ pc' = "cursors"
  /\ UNCHANGED <<durable, ti, collected, latest, ci, flush, setCalls, issued,
                 outcome, schemaOk, remote, abortedBy, faults>>

\* collected is empty: "No new events."
NoEvents ==
  /\ pc = "flush"
  /\ collected = <<>>
  /\ pc' = "cursors"
  /\ UNCHANGED <<durable, ti, collected, latest, ci, flush, setCalls, issued,
                 outcome, schemaOk, remote, abortedBy, faults>>

\* write_events commits the batch and returns.
WriteOk ==
  /\ pc = "flush"
  /\ collected /= <<>>
  /\ stored' = stored \cup Committed(collected, FALSE)
  /\ flush' = [status |-> "ok", topics |-> TopicsOf(collected),
                rows |-> collected, count |-> Len(collected)]
  /\ pc' = "upload"
  /\ UNCHANGED <<mock_mode, cursors, ti, collected, latest, ci,
                 setCalls, issued, outcome, schemaOk, remote, abortedBy, faults>>

\* Mutant: the exception of write_events is caught and main goes on.
WriteFailsSwallowed ==
  /\ pc = "flush"
  /\ collected /= <<>>
  /\ flush' = [status |-> "failed", topics |-> TopicsOf(collected),
                rows |-> <<>>, count |-> 0]
  /\ pc' = "cursors"
  /\ Inject(1)
  /\ UNCHANGED <<durable, ti, collected, latest, ci, setCalls, issued, outcome,
                 schemaOk, remote, abortedBy>>

\* write_events raises after inserting k rows of the batch: the transaction
\* is rolled back and the exception leaves main.
WriteFails ==
  /\ pc = "flush"
  /\ collected /= <<>>
  /\ \E k \in 0..Len(collected) :
       stored' = stored \cup Committed(Take(collected, k), TRUE)
  /\ flush' = [status |-> "failed", topics |-> TopicsOf(collected),
                rows |-> <<>>, count |-> 0]
  /\ Abort("flush")
  /\ UNCHANGED <<mock_mode, cursors, setCalls>>

\* ENVIRONMENT is "local": no upload.
UploadSkip ==
  /\ pc = "upload"
  /\ pc' = "cursors"
  /\ UNCHANGED <<durable, ti, collected, latest, ci, flush, setCalls, issued,
                 outcome, schemaOk, remote, abortedBy, faults>>

UploadOk ==
  /\ pc = "upload"
  /\ pc' = "cursors"
  /\ UNCHANGED <<durable, ti, collected, latest, ci, flush, setCalls, issued,
                 outcome, schemaOk, remote, abortedBy, faults>>

\* upload_file raises: the exception leaves main.
UploadFails ==
  /\ pc = "upload"
  /\ Abort("upload")
  /\ UNCHANGED <<durable, flush, setCalls>>

\* cursor_store.set(topic, replay_id) for the next item of latest_per_topic.
SetOk ==
  /\ pc = "cursors"
  /\ ci <= Len(LatestItems)
  /\ cursors' = CursorSet(cursors, LatestItems[ci], latest[LatestItems[ci]][1])
  /\ setCalls' = Append(setCalls, LatestItems[ci])
  /\ ci' = ci + 1
  /\ UNCHANGED <<mock_mode, stored, pc, ti, collected, latest, flush,
                 issued, outcome, schemaOk, remote, abortedBy, faults>>

\* Mutant: the row is written before cursor_store.set raises.
SetFailsAfterWrite ==
  /\ pc = "cursors"
  /\ ci <= Len(LatestItems)
  /\ cursors' = CursorSet(cursors, LatestItems[ci], latest[LatestItems[ci]][1])
  /\ setCalls' = Append(setCalls, LatestItems[ci])
  /\ Abort("set")
  /\ UNCHANGED <<mock_mode, stored, flush>>

\* cursor_store.set raises: the row keeps its value, the exception leaves main.
SetFails ==
  /\ pc = "cursors"
  /\ ci <= Len(LatestItems)
  /\ setCalls' = Append(setCalls, LatestItems[ci])
  /\ Abort("set")
  /\ UNCHANGED <<durable, flush>>

\* main returns.
Finish ==
  /\ pc = "cursors"
  /\ ci > Len(LatestItems)
  /\ pc' = "done"
  /\ Leave
  /\ UNCHANGED <<durable, flush, setCalls, abortedBy, faults>>

\* The process dies in the middle of a cycle: only the databases remain.
Crash ==
  /\ pc \in {"auth", "topic", "flush", "upload", "cursors"}
  /\ Abort("crash")
  /\ UNCHANGED <<durable, flush, setCalls>>

BNext ==
  \/ StartCycle
  \/ AuthOk
  \/ AuthFails
  \/ GetFails
  \/ LoadMock
  \/ GetTopicFails
  \/ SchemaFetchFails
  \/ SubscribeFails
  \/ SubscribeDenied
  \/ FetchFailsMidStream
  \/ FetchOk
  \/ NoEvents
  \/ WriteOk
  \/ WriteFails
  \/ UploadSkip
  \/ UploadOk
  \/ UploadFails
  \/ SetOk
  \/ SetFails
  \/ Finish
  \/ Crash

(***************************************************************************)
(* Part II: the continuous subscriber,                                     *)
(* subscribe_to_topic_with_token_response                                  *)
(***************************************************************************)

\* Signals (SIGINT, SIGTERM) delivered to the process in one run.
MaxSignals == 1

\* Fetch requests the request generator yields in one run.
MaxReq == 2

\* The status codes of a grpc.RpcError raised by the Subscribe stream.
Codes == {"CANCELLED", "UNAVAILABLE"}

\* The envelope kinds of the continuous stream.
SKinds == {"ok", "bad", "nopayload"}

VARIABLES
  stop,        \* the threading.Event stop
  channel,     \* the gRPC channel: open or closed
  holder,      \* stream_call_holder["call"] is set
  callState,   \* the Subscribe call: none, active, cancelled, failed, ended
  mpc,         \* where the supervisor (main thread) is
  hpc,         \* where the signal handler is (off: not running)
  signals,     \* signals delivered so far
  warned,      \* the "did not exit within timeout" warning was logged
  cpc,         \* where the consumer thread _consume is
  inbox,       \* the fetch response the consumer is processing
  ei,          \* index of the event of inbox being processed
  err,         \* the exception raised in _consume
  verdict,     \* what the except clause of _consume logged
  gpc,         \* where the request generator fetch_requests is
  sent,        \* fetch requests yielded so far
  requests,    \* the fetch requests yielded, in order
  cache,       \* schema_cache: per schema id, 0 or the fetch that filled it
  attempts,    \* per schema id, the calls of fetch_avro_schema
  failures,    \* per schema id, the calls of fetch_avro_schema that raised
  sfaults,     \* failures and irregular envelopes injected into the stream
  persisted,   \* the event ids persist_event has committed
  nextPos      \* the positions the remote has delivered on the stream

svars == <<stop, channel, holder, callState, mpc, hpc, signals, warned, cpc,
           inbox, ei, err, verdict, gpc, sent, requests, cache, attempts,
           failures, sfaults, persisted, nextPos>>

mainVars == <<mpc, warned>>

consumerVars == <<cpc, inbox, ei, err, verdict, cache, attempts, failures,
                  sfaults, persisted, nextPos>>

genVars == <<gpc, sent, requests>>

SInit ==
  /\ stop = FALSE
  /\ channel = "open"
  /\ holder = FALSE
  /\ callState = "none"
  /\ mpc = "validate"
  /\ hpc = "off"
  /\ signals = 0
  /\ warned = FALSE
  /\ cpc = "unstarted"
  /\ inbox = <<>>
  /\ ei = 1
  /\ err = "none"
  /\ verdict = "none"
  /\ gpc = "unstarted"
  /\ sent = 0
  /\ requests = <<>>
  /\ cache = [s \in SchemaIds |-> 0]
  /\ attempts = [s \in SchemaIds |-> 0]
  /\ failures = [s \in SchemaIds |-> 0]
  /\ sfaults = 0
  /\ persisted = {}
  /\ nextPos = 0

\* call.cancel() on the handle read from stream_call_holder, if there is one.
CancelHeldCall ==
  callState' = IF holder /\ callState = "active" THEN "cancelled" ELSE callState

\* channel.close(): gRPC terminates every RPC active on the channel.
CloseChannel ==
  /\ channel' = "closed"
  /\ callState' = IF callState = "active" THEN "cancelled" ELSE callState

\* The environment injects k more failures or irregular envelopes into
\* the stream.
SInject(k) ==
  /\ sfaults + k <= MaxFaults
  /\ sfaults' = sfaults + k

\* ----- the supervisor (runs only while no signal handler is running) -----

\* ensure_topic_exists returns True; stop, the cache and the holder are
\* created and the signal handlers installed.
ValidateOk ==
  /\ mpc = "validate"
  /\ mpc' = "start"
  /\ UNCHANGED <<stop, channel, holder, callState, hpc, signals, warned,
                 consumerVars, genVars>>

\* ensure_topic_exists returns False: the channel is closed, the function
\* returns before subscribing.
ValidateFails ==
  /\ mpc = "validate"
  /\ channel' = "closed"
  /\ mpc' = "unavailable"
  /\ UNCHANGED <<stop, holder, callState, hpc, signals, warned, consumerVars,
                 genVars>>

\* t.start()
StartThread ==
  /\ mpc = "start"
  /\ hpc = "off"
  /\ cpc' = "subscribe"
  /\ mpc' = "wait"
  /\ UNCHANGED <<stop, channel, holder, callState, hpc, signals, warned, inbox,
                 ei, err, verdict, cache, attempts, failures, sfaults, persisted, nextPos,
                 genVars>>

\* Mutant: the wait loop of the supervisor never sees the stop flag.
WaitNeverExits ==
  /\ mpc = "wait"
  /\ hpc = "off"
  /\ stop
  /\ mpc' = "wait"
  /\ UNCHANGED <<stop, channel, holder, callState, hpc, signals, warned,
                 consumerVars, genVars>>

\* while not stop.is_set(): stop.wait(1.0) -- left once stop is set.
WaitExit ==
  /\ mpc = "wait"
  /\ hpc = "off"
  /\ stop
  /\ mpc' = "sd_cancel"
  /\ UNCHANGED <<stop, channel, holder, callState, hpc, signals, warned,
                 consumerVars, genVars>>

\* finally: on_shutdown(), its first half (cancel the held call).
ShutdownCancel ==
  /\ mpc = "sd_cancel"
  /\ hpc = "off"
  /\ CancelHeldCall
  /\ mpc' = "sd_close"
  /\ UNCHANGED <<stop, channel, holder, hpc, signals, warned, consumerVars,
                 genVars>>

\* finally: on_shutdown(), its second half (close the channel).
ShutdownClose ==
  /\ mpc = "sd_close"
  /\ hpc = "off"
  /\ CloseChannel
  /\ mpc' = "join"
  /\ UNCHANGED <<stop, holder, hpc, signals, warned, consumerVars, genVars>>

\* t.join(timeout=10) returns because the consumer thread has exited.
JoinExited ==
  /\ mpc = "join"
  /\ hpc = "off"
  /\ cpc = "exited"
  /\ mpc' = "returned"
  /\ UNCHANGED <<stop, channel, holder, callState, hpc, signals, warned,
                 consumerVars, genVars>>

\* t.join(timeout=10) returns because the timeout has passed.
JoinTimeout ==
  /\ mpc = "join"
  /\ hpc = "off"
  /\ cpc /= "exited"
  /\ mpc' = "alive_check"
  /\ UNCHANGED <<stop, channel, holder, callState, hpc, signals, warned,
                 consumerVars, genVars>>

\* if t.is_alive(): logger.warning(...); the function returns.
AliveCheck ==
  /\ mpc = "alive_check"
  /\ hpc = "off"
  /\ warned' = (cpc /= "exited")
  /\ mpc' = "returned"
  /\ UNCHANGED <<stop, channel, holder, callState, hpc, signals, consumerVars,
                 genVars>>

\* ----- the signal handler (runs on the main thread) -----

\* SIGINT or SIGTERM arrives while the handlers are installed.
Signal ==
  /\ hpc = "off"
  /\ mpc \in {"start", "wait", "sd_cancel", "sd_close", "join", "alive_check"}
  /\ signals < MaxSignals
  /\ signals' = signals + 1
  /\ hpc' = "set"
  /\ UNCHANGED <<stop, channel, holder, callState, mainVars, consumerVars,
                 genVars>>

\* handler: stop_event.set()
HandlerSetStop ==
  /\ hpc = "set"
  /\ stop' = TRUE
  /\ hpc' = "cancel"
  /\ UNCHANGED <<channel, holder, callState, signals, mainVars, consumerVars,
                 genVars>>

\* handler: on_shutdown(), its first half.
HandlerCancel ==
  /\ hpc = "cancel"
  /\ CancelHeldCall
  /\ hpc' = "close"
  /\ UNCHANGED <<stop, channel, holder, signals, mainVars, consumerVars,
                 genVars>>

\* handler: on_shutdown(), its second half; the handler returns.
HandlerClose ==
  /\ hpc = "close"
  /\ CloseChannel
  /\ hpc' = "off"
  /\ UNCHANGED <<stop, holder, signals, mainVars, consumerVars, genVars>>

\* ----- the consumer thread, _consume -----

\* call = stub.Subscribe(fetch_requests(), metadata=metadata)
SubscribeCall ==
  /\ cpc = "subscribe"
  /\ channel = "open"
  /\ callState' = "active"
  /\ gpc' = "first"
  /\ cpc' = "store"
  /\ UNCHANGED <<stop, channel, holder, mainVars, hpc, signals, inbox, ei, err,
                 verdict, cache, attempts, failures, sfaults, persisted, nextPos, sent,
                 requests>>

\* Mutant: stub.Subscribe starts a call on a closed channel.
SubscribeOnClosedStarts ==
  /\ cpc = "subscribe"
  /\ channel = "closed"
  /\ callState' = "active"
  /\ gpc' = "first"
  /\ cpc' = "store"
  /\ UNCHANGED <<stop, channel, holder, mainVars, hpc, signals, inbox, ei, err,
                 verdict, cache, attempts, failures, sfaults, persisted, nextPos, sent,
                 requests>>

\* stub.Subscribe on a closed channel raises ValueError, which no except
\* clause of _consume catches.
SubscribeOnClosed ==
  /\ cpc = "subscribe"
  /\ channel = "closed"
  /\ err' = "ValueError"
  /\ cpc' = "finally"
  /\ UNCHANGED <<stop, channel, holder, callState, mainVars, hpc, signals,
                 inbox, ei, verdict, cache, attempts, failures, sfaults, persisted, nextPos,
                 genVars>>

\* stream_call_holder["call"] = call
StoreHandle ==
  /\ cpc = "store"
  /\ holder' = TRUE
  /\ cpc' = "recv"
  /\ UNCHANGED <<stop, channel, callState, mainVars, hpc, signals, inbox, ei,
                 err, verdict, cache, attempts, failures, sfaults, persisted, nextPos, genVars>>

\* The schema id of the events of the subscribed topic; an envelope with
\* another id (published under another version of the schema) is irregular.
StreamSchema == "s1"

\* An envelope of the stream: position, kind and schema id.
SEnvelope(p, k, sid) == [pos |-> p, kind |-> k, schema_id |-> sid]

\* for fetch_resp in call: the remote delivers a response (without events:
\* a keepalive).
RecvResponse ==
  /\ cpc = "recv"
  /\ callState = "active"
  /\ \E n \in 0..(MaxPos - nextPos) :
       \E ks \in [1..n -> SKinds] : \E ids \in [1..n -> SchemaIds] :
         /\ SInject(Irregular(ks)
                      + Cardinality({i \in 1..n : ids[i] /= StreamSchema}))
         /\ inbox' = [i \in 1..n |-> SEnvelope(nextPos + i, ks[i], ids[i])]
         /\ nextPos' = nextPos + n
  /\ cpc' = "check_stop"
  /\ UNCHANGED <<stop, channel, holder, callState, mainVars, hpc, signals, ei,
                 err, verdict, cache, attempts, failures, persisted, genVars>>

\* for fetch_resp in call: the stream raises grpc.RpcError with a status of
\* the remote or the transport.
RecvError ==
  /\ cpc = "recv"
  /\ callState = "active"
  /\ \E code \in Codes : err' = code
  /\ callState' = "failed"
  /\ cpc' = "except"
  /\ UNCHANGED <<stop, channel, holder, mainVars, hpc, signals, inbox, ei,
                 verdict, cache, attempts, failures, sfaults, persisted, nextPos, genVars>>

\* for fetch_resp in call: the call was cancelled locally, the iteration
\* raises grpc.RpcError with StatusCode.CANCELLED.
RecvCancelled ==
  /\ cpc = "recv"
  /\ callState = "cancelled"
  /\ err' = "CANCELLED"
  /\ cpc' = "except"
  /\ UNCHANGED <<stop, channel, holder, callState, mainVars, hpc, signals,
                 inbox, ei, verdict, cache, attempts, failures, sfaults, persisted, nextPos,
                 genVars>>

\* for fetch_resp in call: the remote ends the stream, the loop ends.
RecvEnd ==
  /\ cpc = "recv"
  /\ callState = "active"
  /\ callState' = "ended"
  /\ cpc' = "finally"
  /\ UNCHANGED <<stop, channel, holder, mainVars, hpc, signals, inbox, ei, err,
                 verdict, cache, attempts, failures, sfaults, persisted, nextPos, genVars>>

\* if stop.is_set(): break
StopObserved ==
  /\ cpc = "check_stop"
  /\ stop
  /\ cpc' = "finally"
  /\ UNCHANGED <<stop, channel, holder, callState, mainVars, hpc, signals,
                 inbox, ei, err, verdict, cache, attempts, failures, sfaults, persisted, nextPos,
                 genVars>>

\* Mutant: a response without events ends the loop over the stream.
BeginResponseBreaksOnEmpty ==
  /\ cpc = "check_stop"
  /\ ~stop
  /\ cpc' = IF inbox = <<>> THEN "finally" ELSE "proc"
  /\ ei' = 1
  /\ UNCHANGED <<stop, channel, holder, callState, mainVars, hpc, signals,
                 inbox, err, verdict, cache, attempts, failures, sfaults, persisted, nextPos,
                 genVars>>

\* stop is not set: the events of the response are processed (a response
\* without events is ignored).
BeginResponse ==
  /\ cpc = "check_stop"
  /\ ~stop
  /\ cpc' = IF inbox = <<>> THEN "recv" ELSE "proc"
  /\ ei' = 1
  /\ UNCHANGED <<stop, channel, holder, callState, mainVars, hpc, signals,
                 inbox, err, verdict, cache, attempts, failures, sfaults, persisted, nextPos,
                 genVars>>

\* Mutant: the loop over fetch_resp.events consults stop after each event
\* and leaves the rest of the response unprocessed when it is set.
NextEventChecksStop ==
  /\ ei' = IF stop THEN ei ELSE IF ei = Len(inbox) THEN 1 ELSE ei + 1
  /\ inbox' = IF stop THEN inbox ELSE IF ei = Len(inbox) THEN <<>> ELSE inbox
  /\ cpc' = IF stop THEN "finally" ELSE IF ei = Len(inbox) THEN "recv" ELSE "proc"

\* The loop over fetch_resp.events moves on; after the last event the
\* consumer waits for the next response.
NextEvent ==
  /\ ei' = IF ei = Len(inbox) THEN 1 ELSE ei + 1
  /\ inbox' = IF ei = Len(inbox) THEN <<>> ELSE inbox
  /\ cpc' = IF ei = Len(inbox) THEN "recv" ELSE "proc"

\* schema_cache.get(schema_id), and on a miss a successful
\* fetch_avro_schema whose result (told apart by the call that returned
\* it) is stored.
Resolved(sid) ==
  /\ attempts' = IF cache[sid] /= 0 THEN attempts
                 ELSE [attempts EXCEPT ![sid] = @ + 1]
  /\ cache' = IF cache[sid] /= 0 THEN cache
              ELSE [cache EXCEPT ![sid] = attempts[sid] + 1]
  /\ failures' = failures

\* Mutant: a failed fetch leaves an entry in the cache.
FetchFailedCached(sid) ==
  /\ attempts' = [attempts EXCEPT ![sid] = @ + 1]
  /\ failures' = [failures EXCEPT ![sid] = @ + 1]
  /\ cache' = [cache EXCEPT ![sid] = attempts[sid] + 1]

\* fetch_avro_schema raises on a cache miss: nothing is stored.
FetchFailed(sid) ==
  /\ attempts' = [attempts EXCEPT ![sid] = @ + 1]
  /\ failures' = [failures EXCEPT ![sid] = @ + 1]
  /\ cache' = cache

\* The event has no payload: skipped.
ProcNoPayload ==
  /\ cpc = "proc"
  /\ inbox[ei].kind = "nopayload"
  /\ NextEvent
  /\ UNCHANGED <<stop, channel, holder, callState, mainVars, hpc, signals, err,
                 verdict, cache, attempts, failures, sfaults, persisted,
                 nextPos, genVars>>

\* The schema of the event is not cached and its fetch fails: skipped.
ProcSchemaFails ==
  /\ cpc = "proc"
  /\ inbox[ei].kind /= "nopayload"
  /\ cache[inbox[ei].schema_id] = 0
  /\ FetchFailed(inbox[ei].schema_id)
  /\ SInject(1)
  /\ NextEvent
  /\ UNCHANGED <<stop, channel, holder, callState, mainVars, hpc, signals, err,
                 verdict, persisted, nextPos, genVars>>

\* Mutant: a decode error ends the loop over the events of the response.
ProcDecodeFailsBreaks ==
  /\ cpc = "proc"
  /\ inbox[ei].kind = "bad"
  /\ Resolved(inbox[ei].schema_id)
  /\ ei' = 1
  /\ inbox' = <<>>
  /\ cpc' = "recv"
  /\ UNCHANGED <<stop, channel, holder, callState, mainVars, hpc, signals, err,
                 verdict, sfaults, persisted, nextPos, genVars>>

\* The schema is resolved and schemaless_reader raises: logged.
ProcDecodeFails ==
  /\ cpc = "proc"
  /\ inbox[ei].kind = "bad"
  /\ Resolved(inbox[ei].schema_id)
  /\ NextEvent
  /\ UNCHANGED <<stop, channel, holder, callState, mainVars, hpc, signals, err,
                 verdict, sfaults, persisted, nextPos, genVars>>

\* The schema is resolved, the payload decoded and persist_event commits.
ProcPersist ==
  /\ cpc = "proc"
  /\ inbox[ei].kind = "ok"
  /\ Resolved(inbox[ei].schema_id)
  /\ persisted' = persisted \cup {inbox[ei].pos}
  /\ NextEvent
  /\ UNCHANGED <<stop, channel, holder, callState, mainVars, hpc, signals, err,
                 verdict, sfaults, nextPos, genVars>>

\* The payload is decoded and persist_event raises: logged by the same
\* except clause as a decode error.
ProcPersistFails ==
  /\ cpc = "proc"
  /\ inbox[ei].kind = "ok"
  /\ Resolved(inbox[ei].schema_id)
  /\ SInject(1)
  /\ NextEvent
  /\ UNCHANGED <<stop, channel, holder, callState, mainVars, hpc, signals, err,
                 verdict, persisted, nextPos, genVars>>

\* Mutant: every cancellation status is taken for a normal shutdown.
ClassifyIgnoresStop(stopSet, code) ==
  IF code = "CANCELLED" THEN "normal" ELSE "error"

\* except grpc.RpcError: what is logged for the error.
Classify(stopSet, code) ==
  IF stopSet /\ code = "CANCELLED" THEN "normal" ELSE "error"

\* except grpc.RpcError as e
HandleRpcError ==
  /\ cpc = "except"
  /\ verdict' = Classify(stop, err)
  /\ cpc' = "finally"
  /\ UNCHANGED <<stop, channel, holder, callState, mainVars, hpc, signals,
                 inbox, ei, err, cache, attempts, failures, sfaults, persisted, nextPos, genVars>>

\* Mutant: after the finally block the consumer subscribes again.
ConsumerFinallyResubscribes ==
  /\ cpc = "finally"
  /\ CancelHeldCall
  /\ cpc' = IF channel = "open" /\ ~stop THEN "subscribe" ELSE "exited"
  /\ UNCHANGED <<stop, channel, holder, mainVars, hpc, signals, inbox, ei, err,
                 verdict, cache, attempts, failures, sfaults, persisted, nextPos, genVars>>

\* finally: the held call is cancelled; the thread ends.
ConsumerFinally ==
  /\ cpc = "finally"
  /\ CancelHeldCall
  /\ cpc' = "exited"
  /\ UNCHANGED <<stop, channel, holder, mainVars, hpc, signals, inbox, ei, err,
                 verdict, cache, attempts, failures, sfaults, persisted, nextPos, genVars>>

\* ----- the request generator, fetch_requests (run by gRPC) -----

\* The first request fetch_requests yields: replay_preset LATEST, no
\* replay_id.
FirstRequest == [replay_preset |-> "LATEST", replay_id |-> <<>>]

\* Every later request: num_requested only, no replay_preset, no replay_id.
PeriodicRequest == [replay_preset |-> "unset", replay_id |-> <<>>]

\* The first request: replay_preset LATEST.
GenFirst ==
  /\ gpc = "first"
  /\ sent' = sent + 1
  /\ requests' = Append(requests, FirstRequest)
  /\ gpc' = "loop"
  /\ UNCHANGED <<stop, channel, holder, callState, mainVars, hpc, signals,
                 consumerVars>>

\* while not stop.is_set()
GenLoop ==
  /\ gpc = "loop"
  /\ gpc' = IF stop THEN "done" ELSE "waiting"
  /\ UNCHANGED <<stop, channel, holder, callState, mainVars, hpc, signals,
                 consumerVars, sent, requests>>

\* Mutant: the wait is not interrupted by stop and a request is yielded
\* whether or not stop is set.
GenWakeIgnoresStop ==
  /\ gpc = "waiting"
  /\ sent < MaxReq
  /\ gpc' = "loop"
  /\ sent' = sent + 1
  /\ requests' = Append(requests, PeriodicRequest)
  /\ UNCHANGED <<stop, channel, holder, callState, mainVars, hpc, signals,
                 consumerVars>>

\* Mutant: the periodic request repeats the first one, preset included.
GenWakeRepeatsFirst ==
  /\ gpc = "waiting"
  /\ stop \/ sent < MaxReq
  /\ gpc' = IF stop THEN "done" ELSE "loop"
  /\ sent' = IF stop THEN sent ELSE sent + 1
  /\ requests' = IF stop THEN requests ELSE Append(requests, FirstRequest)
  /\ UNCHANGED <<stop, channel, holder, callState, mainVars, hpc, signals,
                 consumerVars>>

\* stop.wait(periodic_fetch_secs) returns, by the timeout or because stop
\* was set; if stop is set the generator ends, else it yields a request.
GenWake ==
  /\ gpc = "waiting"
  /\ stop \/ sent < MaxReq
  /\ gpc' = IF stop THEN "done" ELSE "loop"
  /\ sent' = IF stop THEN sent ELSE sent + 1
  /\ requests' = IF stop THEN requests ELSE Append(requests, PeriodicRequest)
  /\ UNCHANGED <<stop, channel, holder, callState, mainVars, hpc, signals,
                 consumerVars>>

MainStep ==
  \/ ValidateOk
  \/ ValidateFails
  \/ StartThread
  \/ WaitExit
  \/ ShutdownCancel
  \/ ShutdownClose
  \/ JoinExited
  \/ JoinTimeout
  \/ AliveCheck

HandlerStep ==
  \/ HandlerSetStop
  \/ HandlerCancel
  \/ HandlerClose

ConsumerStep ==
  \/ SubscribeCall
  \/ SubscribeOnClosed
  \/ StoreHandle
  \/ RecvCancelled
  \/ StopObserved
  \/ BeginResponse
  \/ ProcNoPayload
  \/ ProcSchemaFails
  \/ ProcDecodeFails
  \/ ProcPersist
  \/ ProcPersistFails
  \/ HandleRpcError
  \/ ConsumerFinally

GenStep ==
  \/ GenFirst
  \/ GenLoop
  \/ GenWake

RemoteStep ==
  \/ RecvResponse
  \/ RecvError
  \/ RecvEnd

SNext ==
  \/ MainStep
  \/ Signal
  \/ HandlerStep
  \/ ConsumerStep
  \/ GenStep
  \/ RemoteStep

(***************************************************************************)
(* Part III: the fetch of one topic, fetch_events_via_pubsub, as a         *)
(* function of what the remote delivers on the Subscribe stream            *)
(***************************************************************************)

\* Most responses the remote delivers on one Subscribe stream.
MaxResp == 2

VARIABLES
  stream,      \* the fetch responses the remote delivers on the stream
  limit,       \* max_events
  fetched,     \* the list fetch_events_via_pubsub returned, None before
  keepalive    \* continuous subscriber: a response without events was
               \* received since the last fetch request was yielded

fvars == <<stream, limit, fetched>>

\* The variables the batch cycle and the continuous subscriber leave alone.
nonBatch == <<svars, fvars, keepalive>>

nonStream == <<bvars, fvars, keepalive>>

\* The kinds of the envelopes of a stream: decodable or not.
StreamKinds == {"ok", "bad"}

\* The responses to a request starting after position s whose envelopes
\* have the kinds kss[1], kss[2], ...: positions go on from one response
\* to the next.
RECURSIVE ResponsesFrom(_, _)
ResponsesFrom(s, kss) ==
  IF kss = <<>> THEN <<>>
  ELSE <<Response(s, Head(kss))>> \o ResponsesFrom(s + Len(Head(kss)), Tail(kss))

KindSeqs == UNION {[1..n -> StreamKinds] : n \in 0..MaxPos}

\* Every stream of at most MaxResp responses of at most MaxPos envelopes.
Streams ==
  {ResponsesFrom(0, kss) : kss \in UNION {[1..r -> KindSeqs] : r \in 0..MaxResp}}

\* for fetch_response in response_stream: the loop body ends in a break
\* on every path, so subscribe_to_events reads the first response of the
\* stream and no other (nothing, if the stream ends at once).
ResponseRead(responses) == IF responses = <<>> THEN <<>> ELSE responses[1]

\* The harness is not in use.
FIdle ==
  /\ stream = <<>>
  /\ limit = MaxEvents
  /\ fetched = None

\* A stream and a limit are chosen; fetch_events_via_pubsub is not yet
\* called.
FInit ==
  /\ stream \in Streams
  /\ limit \in 1..(MaxPos + 1)
  /\ fetched = None

\* events = fetch_events_via_pubsub(..., topic, replay_id, max_events)
CallFetch ==
  /\ fetched = None
  /\ fetched' = Some(FetchEventsViaPubsub(Topics[1], ResponseRead(stream), limit))
  /\ UNCHANGED <<stream, limit>>

\* The step is the receipt of a response without events by _consume.
KeepaliveReceived == cpc = "recv" /\ cpc' = "check_stop" /\ inbox' = <<>>

\* A step of the continuous subscriber, with the keepalive flag kept.
Tracked(A) ==
  /\ A
  /\ keepalive' = IF KeepaliveReceived THEN TRUE
                  ELSE IF sent' > sent THEN FALSE
                  ELSE keepalive

(***************************************************************************)
(* Specifications                                                          *)
(***************************************************************************)

vars == <<bvars, svars, fvars, keepalive>>

Init == BInit /\ SInit /\ FIdle /\ keepalive = FALSE

Next ==
  \/ StartCycle /\ UNCHANGED nonBatch
  \/ AuthOk /\ UNCHANGED nonBatch
  \/ AuthFails /\ UNCHANGED nonBatch
  \/ GetFails /\ UNCHANGED nonBatch
  \/ LoadMock /\ UNCHANGED nonBatch
  \/ GetTopicFails /\ UNCHANGED nonBatch
  \/ SchemaFetchFails /\ UNCHANGED nonBatch
  \/ SubscribeFails /\ UNCHANGED nonBatch
  \/ SubscribeDenied /\ UNCHANGED nonBatch
  \/ FetchFailsMidStream /\ UNCHANGED nonBatch
  \/ FetchOk /\ UNCHANGED nonBatch
  \/ NoEvents /\ UNCHANGED nonBatch
  \/ WriteOk /\ UNCHANGED nonBatch
  \/ WriteFails /\ UNCHANGED nonBatch
  \/ UploadSkip /\ UNCHANGED nonBatch
  \/ UploadOk /\ UNCHANGED nonBatch
  \/ UploadFails /\ UNCHANGED nonBatch
  \/ SetOk /\ UNCHANGED nonBatch
  \/ SetFails /\ UNCHANGED nonBatch
  \/ Finish /\ UNCHANGED nonBatch
  \/ Crash /\ UNCHANGED nonBatch

\* The batch cycles of TimerPoller.main.
Spec == Init /\ [][Next]_vars

\* The replay ids a caller may hand to cursor_store.set, and the candidate
\* checkpoints latest_per_topic may hold.
ReplayIds == {<<>>} \cup {BytesOf(p) : p \in 1..MaxPos}

Candidates == [TopicSet -> {None} \cup {Some(r) : r \in ReplayIds}]

\* The cursor loop of main entered with any candidate checkpoints, on an
\* empty cursors table.
CursorInit ==
  /\ mock_mode = FALSE
  /\ cursors = {}
  /\ stored = {}
  /\ pc = "cursors"
  /\ ti = 1
  /\ collected = <<>>
  /\ latest \in Candidates
  /\ ci = 1
  /\ flush = NotFlushed
  /\ setCalls = <<>>
  /\ issued = NoTopic
  /\ outcome = [t \in TopicSet |-> "none"]
  /\ schemaOk = [s \in SchemaIds |-> 0]
  /\ remote = [t \in TopicSet |-> NoAnswer]
  /\ abortedBy = "none"
  /\ faults = 0
  /\ SInit
  /\ FIdle
  /\ keepalive = FALSE

\* The cursor loop is entered again, with other candidate checkpoints.
CursorLoopAgain ==
  /\ pc = "cursors"
  /\ ci > Len(LatestItems)
  /\ latest' \in Candidates
  /\ ci' = 1
  /\ setCalls' = <<>>
  /\ UNCHANGED <<durable, pc, ti, collected, flush, issued, outcome, schemaOk,
                 remote, abortedBy, faults>>

CursorNext ==
  \/ SetOk /\ UNCHANGED nonBatch
  \/ CursorLoopAgain /\ UNCHANGED nonBatch

\* Any sequence of cursor_store.set calls, with get read in every state.
CursorSpec == CursorInit /\ [][CursorNext]_vars

StreamInit == BInit /\ mock_mode = FALSE /\ SInit /\ FIdle /\ keepalive = FALSE

StreamNext ==
  \/ ValidateOk /\ UNCHANGED nonStream
  \/ ValidateFails /\ UNCHANGED nonStream
  \/ StartThread /\ UNCHANGED nonStream
  \/ WaitExit /\ UNCHANGED nonStream
  \/ ShutdownCancel /\ UNCHANGED nonStream
  \/ ShutdownClose /\ UNCHANGED nonStream
  \/ JoinExited /\ UNCHANGED nonStream
  \/ JoinTimeout /\ UNCHANGED nonStream
  \/ AliveCheck /\ UNCHANGED nonStream
  \/ Signal /\ UNCHANGED nonStream
  \/ HandlerSetStop /\ UNCHANGED nonStream
  \/ HandlerCancel /\ UNCHANGED nonStream
  \/ HandlerClose /\ UNCHANGED nonStream
  \/ SubscribeCall /\ UNCHANGED nonStream
  \/ SubscribeOnClosed /\ UNCHANGED nonStream
  \/ StoreHandle /\ UNCHANGED nonStream
  \/ RecvCancelled /\ UNCHANGED nonStream
  \/ StopObserved /\ UNCHANGED nonStream
  \/ BeginResponse /\ UNCHANGED nonStream
  \/ ProcNoPayload /\ UNCHANGED nonStream
  \/ ProcSchemaFails /\ UNCHANGED nonStream
  \/ ProcDecodeFails /\ UNCHANGED nonStream
  \/ ProcPersist /\ UNCHANGED nonStream
  \/ ProcPersistFails /\ UNCHANGED nonStream
  \/ HandleRpcError /\ UNCHANGED nonStream
  \/ ConsumerFinally /\ UNCHANGED nonStream
  \/ GenFirst /\ UNCHANGED nonStream
  \/ GenLoop /\ UNCHANGED nonStream
  \/ GenWake /\ UNCHANGED nonStream
  \/ RecvResponse /\ UNCHANGED nonStream
  \/ RecvError /\ UNCHANGED nonStream
  \/ RecvEnd /\ UNCHANGED nonStream

\* One run of the continuous subscriber.
StreamSpec == StreamInit /\ [][StreamNext]_vars

\* The continuous subscriber with its threads scheduled fairly: the main
\* thread (and the handler running on it), the consumer thread, and gRPC's
\* raising of CANCELLED on a cancelled call.  The remote and the signals
\* are under no obligation.
FairStreamSpec ==
  /\ StreamSpec
  /\ WF_vars(MainStep /\ UNCHANGED nonStream)
  /\ WF_vars(HandlerStep /\ UNCHANGED nonStream)
  /\ WF_vars(ConsumerStep /\ UNCHANGED nonStream)


\* The continuous subscriber with the keepalive flag tracked.
PeriodicInit == StreamInit

PeriodicNext ==
  \/ Tracked(ValidateOk) /\ UNCHANGED <<bvars, fvars>>
  \/ Tracked(ValidateFails) /\ UNCHANGED <<bvars, fvars>>
  \/ Tracked(StartThread) /\ UNCHANGED <<bvars, fvars>>
  \/ Tracked(WaitExit) /\ UNCHANGED <<bvars, fvars>>
  \/ Tracked(ShutdownCancel) /\ UNCHANGED <<bvars, fvars>>
  \/ Tracked(ShutdownClose) /\ UNCHANGED <<bvars, fvars>>
  \/ Tracked(JoinExited) /\ UNCHANGED <<bvars, fvars>>
  \/ Tracked(JoinTimeout) /\ UNCHANGED <<bvars, fvars>>
  \/ Tracked(AliveCheck) /\ UNCHANGED <<bvars, fvars>>
  \/ Tracked(Signal) /\ UNCHANGED <<bvars, fvars>>
  \/ Tracked(HandlerSetStop) /\ UNCHANGED <<bvars, fvars>>
  \/ Tracked(HandlerCancel) /\ UNCHANGED <<bvars, fvars>>
  \/ Tracked(HandlerClose) /\ UNCHANGED <<bvars, fvars>>
  \/ Tracked(SubscribeCall) /\ UNCHANGED <<bvars, fvars>>
  \/ Tracked(SubscribeOnClosed) /\ UNCHANGED <<bvars, fvars>>
  \/ Tracked(StoreHandle) /\ UNCHANGED <<bvars, fvars>>
  \/ Tracked(RecvCancelled) /\ UNCHANGED <<bvars, fvars>>
  \/ Tracked(StopObserved) /\ UNCHANGED <<bvars, fvars>>
  \/ Tracked(BeginResponse) /\ UNCHANGED <<bvars, fvars>>
  \/ Tracked(ProcNoPayload) /\ UNCHANGED <<bvars, fvars>>
  \/ Tracked(ProcSchemaFails) /\ UNCHANGED <<bvars, fvars>>
  \/ Tracked(ProcDecodeFails) /\ UNCHANGED <<bvars, fvars>>
  \/ Tracked(ProcPersist) /\ UNCHANGED <<bvars, fvars>>
  \/ Tracked(ProcPersistFails) /\ UNCHANGED <<bvars, fvars>>
  \/ Tracked(HandleRpcError) /\ UNCHANGED <<bvars, fvars>>
  \/ Tracked(ConsumerFinally) /\ UNCHANGED <<bvars, fvars>>
  \/ Tracked(GenFirst) /\ UNCHANGED <<bvars, fvars>>
  \/ Tracked(GenLoop) /\ UNCHANGED <<bvars, fvars>>
  \/ Tracked(GenWake) /\ UNCHANGED <<bvars, fvars>>
  \/ Tracked(RecvResponse) /\ UNCHANGED <<bvars, fvars>>
  \/ Tracked(RecvError) /\ UNCHANGED <<bvars, fvars>>
  \/ Tracked(RecvEnd) /\ UNCHANGED <<bvars, fvars>>

PeriodicSpec == PeriodicInit /\ [][PeriodicNext]_vars

FetchInit == BInit /\ mock_mode = FALSE /\ SInit /\ FInit /\ keepalive = FALSE

FetchNext ==
  \/ CallFetch /\ UNCHANGED <<bvars, svars, keepalive>>

\* fetch_events_via_pubsub applied to every stream and limit.
FetchSpec == FetchInit /\ [][FetchNext]_vars

(***************************************************************************)
(* Properties of the batch cycle                                           *)
(***************************************************************************)

\* The events of topic T in main's collected.
EventsOf(T) == {collected[i] : i \in {j \in 1..Len(collected) : collected[j].topic = T}}

\* The cursor loop of main has run to its end.
CursorLoopDone == pc = "cursors" /\ ci > Len(LatestItems)

\* C1: in a cycle whose write_events call failed, CursorStore.set is called
\* for no topic, however many topics had events in the batch.
C1_NoSetAfterFailedFlush == flush.status = "failed" => setCalls = <<>>

\* C1 witness: a cycle ended by a failed flush of a batch with events of two
\* topics or more, and no set call was made.
C1_Witness ==
  /\ pc = "aborted"
  /\ abortedBy = "flush"
  /\ flush.status = "failed"
  /\ Cardinality(flush.topics) >= 2
  /\ setCalls = <<>>

\* A stored checkpoint is the replay id of a committed row of its topic.
CheckpointStored ==
  \A T \in TopicSet :
    CursorGet(cursors, T) /= None =>
      \E r \in stored : r.topic = T /\ Some(r.replay_id) = CursorGet(cursors, T)

\* A step that changes the checkpoint of a topic comes after a successful
\* write_events of this cycle whose batch holds an event with that replay id.
SetFollowsFlush ==
  \A T \in TopicSet :
    CursorGet(cursors', T) /= CursorGet(cursors, T) =>
      /\ flush.status = "ok"
      /\ Rows(collected) \subseteq stored
      /\ \E r \in EventsOf(T) : Some(r.replay_id) = CursorGet(cursors', T)

\* C2: every CursorStore.set(T, P) comes after write_events returned for a
\* batch with the event of position P, so at every point (a crash included)
\* a stored checkpoint is the position of a stored event.
C2_SetAfterFlush == []CheckpointStored /\ [][SetFollowsFlush]_bvars

\* C2 witness: the process died after the flush and the first set and before
\* the set of another topic of the batch, whose checkpoint is still absent.
C2_Witness ==
  /\ pc = "aborted"
  /\ abortedBy = "crash"
  /\ flush.status = "ok"
  /\ Len(setCalls) = 1
  /\ CursorGet(cursors, setCalls[1]) /= None
  /\ \E T \in flush.topics : T /= setCalls[1] /\ CursorGet(cursors, T) = None

\* C3: every envelope the remote delivered for a topic up to its stored
\* checkpoint is a committed row.  (The remote delivers consecutive
\* positions from the start of the request, so every position up to a
\* checkpoint has been delivered.)
C3_CheckpointCovered ==
  ~mock_mode =>
    \A T \in TopicSet :
      Truthy(CursorGet(cursors, T)) =>
        \A q \in 1..IntFromBytes(CursorGet(cursors, T)[1]) :
          \E r \in stored : r.topic = T /\ r.event_id = q

\* At the end of the cursor loop every topic whose fetch succeeded has its
\* events committed and, if it has events, its checkpoint written.
FetchedTopicsDone ==
  CursorLoopDone =>
    \A T \in TopicSet :
      outcome[T] = "ok" =>
        /\ EventsOf(T) \subseteq stored
        /\ EventsOf(T) /= {} => CursorGet(cursors, T) = latest[T] /\ CursorGet(cursors, T) /= None

\* The step in which the fetch of a topic fails moves main to the next topic
\* (or to the flush) and leaves the batch as it was.
FailedTopicSkipped ==
  \A T \in TopicSet :
    outcome[T] /= "error" /\ outcome'[T] = "error" =>
      /\ pc' = IF ti = Len(Topics) THEN "flush" ELSE "topic"
      /\ ti' = ti + 1
      /\ collected' = collected
      /\ latest' = latest

\* C4: a transport error on one topic does not keep the other topics from
\* being fetched, batched, flushed and checkpointed in the same cycle.
C4_Isolation == []FetchedTopicsDone /\ [][FailedTopicSkipped]_bvars

\* C4 witness: A failed, B and C were fetched, flushed and checkpointed.
C4_Witness ==
  /\ CursorLoopDone
  /\ outcome["A"] = "error"
  /\ \A T \in {"B", "C"} :
       /\ outcome[T] = "ok"
       /\ EventsOf(T) /= {}
       /\ EventsOf(T) \subseteq stored
       /\ CursorGet(cursors, T) = latest[T]
       /\ CursorGet(cursors, T) /= None

\* C5: the request sent for a topic that has a stored checkpoint P is CUSTOM
\* with replay id P.
C5_ResumeFromCheckpoint ==
  \A T \in TopicSet :
    (pc \in {"topic", "flush", "upload"} /\ issued[T] /= None /\ CursorGet(cursors, T) /= None) =>
      /\ issued[T][1].replay_preset = "CUSTOM"
      /\ issued[T][1].replay_id = CursorGet(cursors, T)[1]

\* C6: in one run the schema of a schema id is fetched at most once.
C6_SchemaFetchedOnce == \A s \in SchemaIds : schemaOk[s] <= 1

\* A cycle whose batch is empty calls neither write_events nor
\* CursorStore.set.
EmptyBatchQuiet ==
  (pc = "cursors" /\ collected = <<>>) => flush = NotFlushed /\ setCalls = <<>>

\* CursorStore.set is only called for topics with an event in the batch.
SetCallsHaveEvents ==
  pc = "cursors" => \A i \in 1..Len(setCalls) : EventsOf(setCalls[i]) /= {}

\* The checkpoint of a topic without an event in the batch does not change.
NoEventNoSet ==
  \A T \in TopicSet : CursorGet(cursors', T) /= CursorGet(cursors, T) => EventsOf(T) /= {}

\* C11: in a cycle where every fetch response is a keepalive the batch is
\* empty, write_events and CursorStore.set are not called and the stored
\* checkpoints stay as they are; in any cycle, a topic without an event in
\* the batch gets no checkpoint write.
C11_KeepaliveCycle ==
  /\ []EmptyBatchQuiet
  /\ []SetCallsHaveEvents
  /\ [][NoEventNoSet]_bvars

\* C11 witness: every topic was fetched and answered with a keepalive, one
\* of them has a checkpoint from an earlier cycle, and the cycle is at its
\* end without a flush or a set call.
C11_Witness ==
  /\ CursorLoopDone
  /\ ~mock_mode
  /\ collected = <<>>
  /\ \A T \in TopicSet : outcome[T] = "ok"
  /\ \E T \in TopicSet : CursorGet(cursors, T) /= None
  /\ flush = NotFlushed
  /\ setCalls = <<>>

\* The events of topic T in a sequence of events, in their order.
OfTopic(events, T) == SelectSeq(events, LAMBDA e : e.topic = T)

\* The position after which the remote served topic T in this cycle.
ServedAfter(T) == IF mock_mode THEN 0 ELSE StartOf(issued[T][1])

\* The cycle has run to its end without a failure: every topic was fetched,
\* no response held an irregular envelope, the flush and every set returned.
CleanCycle ==
  /\ CursorLoopDone
  /\ \A T \in TopicSet : outcome[T] = "ok" /\ remote[T].irregular = 0

\* C12: at the end of a cycle without failures, for every topic whose fetch
\* returned n >= 1 envelopes (n <= max_events), the rows the flush wrote
\* for the topic are exactly these n events in arrival order, they are
\* committed, and the stored checkpoint of the topic is the highest of
\* their positions.
C12_CleanCyclePersisted ==
  CleanCycle =>
    \A T \in TopicSet :
      LET n == remote[T].delivered
          s == ServedAfter(T)
          rows == OfTopic(flush.rows, T)
      IN  (n >= 1 /\ n <= MaxEvents) =>
            /\ flush.status = "ok"
            /\ rows = [i \in 1..n |->
                         [topic |-> T, replay_id |-> BytesOf(s + i), event_id |-> s + i]]
            /\ Rows(rows) \subseteq stored
            /\ CursorGet(cursors, T) = Some(BytesOf(s + n))

\* C12 witness: a cycle without failures in which a topic was served two
\* envelopes after its checkpoint 1; both are rows of the flush and the
\* checkpoint is 3, or (lower bound) served positions 1 and 2 from the
\* start, with checkpoint 2.
C12_Witness ==
  /\ CleanCycle
  /\ ~mock_mode
  /\ \E T \in TopicSet :
       /\ remote[T].delivered = 2
       /\ Len(OfTopic(flush.rows, T)) = 2
       /\ CursorGet(cursors, T) = Some(BytesOf(ServedAfter(T) + 2))

\* The topics cursor_store.set was called for in this cycle.
SetTopics == {setCalls[i] : i \in 1..Len(setCalls)}

\* C13: when the flush succeeded and cursor_store.set failed for a topic,
\* set has still been called for every topic with a candidate checkpoint
\* by the time the cycle ends.
C13_SetFailureIsolated ==
  (pc = "aborted" /\ abortedBy = "set" /\ flush.status = "ok") =>
    flush.topics \subseteq SetTopics

\* C14: when the flush succeeded and upload_file failed, the cycle still
\* ends normally, with the rows of the flush committed and set called for
\* every topic with a candidate checkpoint.
C14_UploadFailureNotFatal ==
  /\ abortedBy = "upload" => pc /= "aborted"
  /\ (abortedBy = "upload" /\ pc \in {"done", "aborted"}) =>
       /\ Rows(flush.rows) \subseteq stored
       /\ flush.topics \subseteq SetTopics

\* Nothing of the cycle has happened yet: no topic was looked at, no
\* request was issued, nothing was collected, flushed or checkpointed.
NothingProcessed ==
  /\ ti = 1
  /\ collected = <<>>
  /\ latest = NoTopic
  /\ issued = NoTopic
  /\ \A T \in TopicSet : outcome[T] = "none" /\ remote[T] = NoAnswer
  /\ flush = NotFlushed
  /\ setCalls = <<>>

\* C15: credentials are acquired before anything else of a non-mock cycle,
\* and a cycle whose credential acquisition failed has ended right there:
\* no cursor was read, no topic fetched, no flush and no checkpoint write.
C15_AuthFailureAborts ==
  /\ pc = "auth" => ~mock_mode /\ NothingProcessed
  /\ abortedBy = "auth" => pc = "aborted" /\ ~mock_mode /\ NothingProcessed

\* C15 witness: after a cycle that stored events and checkpoints, a cycle
\* ended by the failure of get_access_token.
C15_Witness ==
  /\ abortedBy = "auth"
  /\ pc = "aborted"
  /\ stored /= {}
  /\ cursors /= {}

\* C16: a topic whose topic info says can_subscribe = false gets no
\* Subscribe request.
C16_NoSubscribeWhenDenied ==
  \A T \in TopicSet : remote[T].can_subscribe = "no" => issued[T] = None

\* C17: a batch cycle ends with an error only for a failure of the
\* credential acquisition or of the flush (or when the process dies).
C17_OnlyAuthAndFlushFatal ==
  pc = "aborted" => abortedBy \in {"auth", "flush", "crash"}

\* C18: a step in which write_events returns commits every event of the
\* batch and returns the number of events of the batch; a step in which
\* it raises commits nothing and the exception leaves main.
C18_FlushAtomic ==
  [][/\ (flush.status /= "ok" /\ flush'.status = "ok") =>
          /\ collected /= <<>>
          /\ stored' = stored \cup Rows(collected)
          /\ flush'.rows = collected
          /\ flush'.count = Len(collected)
     /\ (flush.status /= "failed" /\ flush'.status = "failed") =>
          /\ collected /= <<>>
          /\ stored' = stored
          /\ pc' = "aborted"]_bvars

\* C18 witness: after a cycle that committed its batch, a cycle whose
\* write_events raised.
C18_Witness ==
  /\ flush.status = "failed"
  /\ abortedBy = "flush"
  /\ stored /= {}

\* C20: in the step in which cursor_store.set raises for topic T the
\* cursors table keeps its rows, the checkpoint of T is still the one the
\* request of this cycle was built from, and every request a cycle issues
\* is built from the stored checkpoint: the next cycle repeats the request
\* of the failed cycle.
C20_FailedSetRedelivers ==
  [][/\ (pc = "cursors" /\ abortedBy' = "set") =>
          /\ cursors' = cursors
          /\ ~mock_mode =>
                issued[Last(setCalls')] =
                  Some(FetchRequest(Last(setCalls'),
                                    CursorGet(cursors', Last(setCalls'))))
     /\ \A T \in TopicSet :
          (issued'[T] /= issued[T] /\ issued'[T] /= None) =>
            issued'[T] = Some(FetchRequest(T, CursorGet(cursors, T)))]_bvars

\* C20 witness: cursor_store.set raised for a topic whose events beyond
\* its stored checkpoint were flushed in this cycle.
C20_Witness ==
  /\ pc = "aborted"
  /\ abortedBy = "set"
  /\ ~mock_mode
  /\ \E r \in Rows(flush.rows) :
       /\ r.topic = Last(setCalls)
       /\ r \in stored
       /\ IntFromBytes(r.replay_id) >
            (IF CursorGet(cursors, r.topic) = None THEN 0
             ELSE IntFromBytes(CursorGet(cursors, r.topic)[1]))

\* The step is a call cursor_store.set(T, .) that returned.
SetReturned(T) == setCalls' = Append(setCalls, T) /\ pc' = "cursors"

\* C19: the cursors table is a map from topic to one replay id. get of
\* every topic is absent on the new table; the table never holds two rows
\* of one topic; after set(T, p) returns, get(T) is p, whatever row T had
\* before, and get(U) of every other topic is what it was; a step that is
\* no set changes no get.
C19_CursorStoreIsMap ==
  /\ \A T \in TopicSet : CursorGet(cursors, T) = None
  /\ [](\A r1, r2 \in cursors : r1.topic = r2.topic => r1 = r2)
  /\ [][\A T \in TopicSet :
          /\ SetReturned(T) =>
               /\ CursorGet(cursors', T) = latest[T]
               /\ \A U \in TopicSet \ {T} :
                    CursorGet(cursors', U) = CursorGet(cursors, U)
          /\ CursorGet(cursors', T) /= CursorGet(cursors, T) => SetReturned(T)]_bvars

\* C19 witness: set has just returned for a topic and get gives the value
\* set, while another topic still has the value of an earlier round, which
\* differs from the candidate about to replace it.
C19_Witness ==
  /\ setCalls /= <<>>
  /\ CursorGet(cursors, Last(setCalls)) = latest[Last(setCalls)]
  /\ \E U \in TopicSet \ SetTopics :
       /\ CursorGet(cursors, U) /= None
       /\ latest[U] /= None
       /\ CursorGet(cursors, U) /= latest[U]

(***************************************************************************)
(* Properties of the continuous subscriber                                 *)
(***************************************************************************)

\* The consumer has finished with an envelope: the loop over the events of
\* the response has moved on.
EnvelopeDone == cpc = "proc" /\ <<inbox, ei>>' /= <<inbox, ei>>

\* A fetch_avro_schema call for the id raised in this step.
FetchRaised(sid) == failures'[sid] /= failures[sid]

NoFailureCached ==
  \A sid \in SchemaIds : FetchRaised(sid) => cache'[sid] = 0

RetriedOnMiss ==
  (EnvelopeDone /\ inbox[ei].kind /= "nopayload" /\ cache[inbox[ei].schema_id] = 0)
    => attempts'[inbox[ei].schema_id] = attempts[inbox[ei].schema_id] + 1

CachedForGood ==
  \A sid \in SchemaIds : cache[sid] /= 0 => cache'[sid] = cache[sid]

\* C7: a failed schema fetch stores nothing in the schema cache for its id,
\* every envelope with a payload whose schema id is not cached triggers a
\* fetch attempt for that id, and an entry of the cache, once stored, is
\* never replaced or removed.
C7_SchemaCache ==
  /\ [][NoFailureCached]_vars
  /\ [][RetriedOnMiss]_vars
  /\ [][CachedForGood]_vars

\* A fetch for s1 failed, and the second attempt, made for a later
\* envelope, filled the cache.
C7_Witness == failures["s1"] = 1 /\ attempts["s1"] = 2 /\ cache["s1"] = 2

ShutDown ==
  /\ cpc = "exited"
  /\ mpc = "returned"
  /\ channel = "closed"
  /\ callState /= "active"

\* C8: once the stop flag is set, the consumer thread eventually exits and
\* the supervisor eventually returns, and by then the channel is closed and
\* no Subscribe call is active.
C8_StopLeadsToExit == stop ~> ShutDown

\* The shutdown cancelled the call while the consumer was blocked receiving
\* and woke the request generator from its first periodic wait; the
\* consumer has exited and the supervisor has returned.
C8_Witness ==
  /\ stop
  /\ err = "CANCELLED"
  /\ sent = 1
  /\ gpc = "done"
  /\ ShutDown

\* The supervisor joins the consumer only after stop is set and the channel
\* is closed.
JoinAfterClose ==
  mpc \in {"join", "alive_check", "returned"} => stop /\ channel = "closed"

\* When a shutdown closes the channel, stop is set and no Subscribe call is
\* in flight any more: it was cancelled before.
CloseAfterCancel ==
  (mpc /= "validate" /\ channel = "open" /\ channel' = "closed")
    => stop /\ callState /= "active"

\* A consumer found alive after the timeout is logged, and the supervisor
\* returns.
WarnAndReturn ==
  (mpc = "alive_check" /\ mpc' /= mpc)
    => mpc' = "returned" /\ warned' = (cpc /= "exited")

\* C9: on every shutdown the stop flag is set, then the in-flight Subscribe
\* call is cancelled, then the channel is closed, and only then the
\* consumer is joined; a consumer still alive after the timeout is logged
\* and the supervisor returns.
C9_ShutdownOrder ==
  /\ []JoinAfterClose
  /\ [][CloseAfterCancel]_vars
  /\ [][WarnAndReturn]_vars

\* C10: the except clause of the consumer logs a normal shutdown exactly
\* when the stop flag is set and the error is CANCELLED; every other
\* transport error is logged as an error.
C10_Classification ==
  [][(cpc = "except" /\ cpc' /= "except")
       => verdict' = (IF stop /\ err = "CANCELLED" THEN "normal" ELSE "error")]_vars

\* A cancellation after stop was set has been logged as a normal shutdown.
C10_Witness == verdict = "normal" /\ stop /\ err = "CANCELLED" /\ cpc = "exited"

\* The consumer thread takes a step from the event it is processing.
EventHandled == cpc = "proc" /\ <<cpc, ei, inbox>>' /= <<cpc, ei, inbox>>

\* After the event at ei the loop goes on with the next event of the same
\* response, or with the next response of the same call after the last.
LoopGoesOn ==
  /\ callState' = callState
  /\ err' = err
  /\ IF ei < Len(inbox)
       THEN cpc' = "proc" /\ ei' = ei + 1 /\ inbox' = inbox
       ELSE cpc' = "recv"

\* The first responses of the streams of Part III.
FirstResponses == {ResponseRead(st) : st \in Streams}

\* subscribe_to_events yields exactly the decodable envelopes of the
\* response it reads, in the order of the response.
YieldsEveryDecodable(T, resp) ==
  LET out == SubscribeToEvents(T, resp)
  IN  /\ \A i \in DOMAIN resp :
           resp[i].kind = "ok" <=> \E j \in DOMAIN out : out[j].event_id = resp[i].pos
      /\ \A j, k \in DOMAIN out : j < k => out[j].event_id < out[k].event_id

\* Batch mode: whatever the response, every decodable envelope is yielded.
BatchYieldsEveryDecodable ==
  \A resp \in FirstResponses : YieldsEveryDecodable(Topics[1], resp)

\* C21: a decode failure skips one envelope only.  Continuous mode: when
\* the consumer leaves an undecodable event, the loop goes on with the next
\* event of the response (or the next response) on the same call, and a
\* decodable event that follows an undecodable one is persisted unless a
\* failure of its own is injected.  Batch mode: for every response,
\* subscribe_to_events yields every decodable envelope, also those after an
\* undecodable one.
C21_DecodeErrorSkipsOne ==
  /\ [][(EventHandled /\ inbox[ei].kind = "bad") => LoopGoesOn]_svars
  /\ [][(EventHandled /\ inbox[ei].kind = "ok" /\ ei > 1 /\ inbox[ei - 1].kind = "bad") =>
          \/ persisted' = persisted \cup {inbox[ei].pos}
          \/ sfaults' > sfaults]_svars
  /\ []BatchYieldsEveryDecodable

\* C21 witness: the first event of a response was undecodable (its schema
\* was resolved, no schema fetch failed) and the consumer is at the second
\* event of the same response, on the same call.
C21_Witness ==
  /\ cpc = "proc"
  /\ ei = 2
  /\ inbox[1].kind = "bad"
  /\ inbox[2].kind = "ok"
  /\ cache[inbox[1].schema_id] /= 0
  /\ \A sid \in SchemaIds : failures[sid] = 0
  /\ callState = "active"

\* C22: in the batch cycle a schema-fetch failure skips envelopes only:
\* the topic whose schema fetch failed is still subscribed and its
\* envelopes are processed in the cycle.
C22_SchemaFailureSkipsEnvelopes ==
  \A T \in TopicSet :
    (outcome[T] = "error" /\ remote[T].can_subscribe = "yes") => issued[T] /= None

\* Batch mode: on every stream whose first response has no events the
\* fetch returns nothing, whatever the later responses hold.
BatchDrainedOnEmpty ==
  \A st \in Streams : \A m \in 1..(MaxPos + 1) :
    (st /= <<>> /\ st[1] = <<>>) =>
      FetchEventsViaPubsub(Topics[1], ResponseRead(st), m) = <<>>

\* C23: a response without events.  Batch mode: the fetch of the topic
\* ends and returns nothing further.  Continuous mode: when the consumer,
\* with stop not set, leaves a response without events, it waits for the
\* next response of the same call, nothing is persisted and the call is not
\* ended; the responses after it are processed.
C23_KeepaliveHandling ==
  /\ []BatchDrainedOnEmpty
  /\ [][(cpc = "check_stop" /\ inbox = <<>> /\ ~stop /\ cpc' /= cpc) =>
          /\ cpc' = "recv"
          /\ callState' = callState
          /\ persisted' = persisted
          /\ err' = err]_svars
  /\ [](keepalive => cpc \notin {"unstarted", "subscribe", "store"})

\* C23 witness: after a response without events, received on the first
\* request, the consumer is processing a response with events of the same
\* call.
C23_Witness ==
  /\ keepalive
  /\ sent = 1
  /\ cpc = "proc"
  /\ persisted = {}
  /\ callState = "active"
  /\ ~stop

\* The decodable events a stream holds before its first response without
\* events (the keepalive), or before its end.
RECURSIVE Offered(_, _)
Offered(T, responses) ==
  IF responses = <<>> \/ Head(responses) = <<>> THEN <<>>
  ELSE SubscribeToEvents(T, Head(responses)) \o Offered(T, Tail(responses))

\* C24: fetch_events_via_pubsub returns at most max_events events, and it
\* drains the stream: what it returns are the events the stream holds
\* before its keepalive, cut at max_events.
C24_DrainsUpToMax ==
  fetched /= None =>
    /\ Len(fetched[1]) <= limit
    /\ fetched[1] = Take(Offered(Topics[1], stream), limit)

\* Batch mode: for every topic one request is sent on the stream, whatever
\* the checkpoint, and without a checkpoint it has the preset EARLIEST and
\* no position.
BatchFirstRequest ==
  \A T \in TopicSet :
    /\ RequestGenerator(T, None) =
         <<[topic_name |-> T, replay_preset |-> "EARLIEST", replay_id |-> <<>>]>>
    /\ \A r \in ReplayIds : Len(RequestGenerator(T, Some(r))) = 1

\* C25: the first request of the continuous subscriber has the preset
\* LATEST and no position, every later one has neither a preset nor a
\* position; the batch controller sends one request per topic, with the
\* preset EARLIEST and no position when the topic has no checkpoint.
C25_FirstRequestPreset ==
  /\ []BatchFirstRequest
  /\ [](Len(requests) = sent)
  /\ [](requests /= <<>> =>
          /\ requests[1].replay_preset = "LATEST"
          /\ \A k \in 2..Len(requests) : requests[k].replay_preset = "unset"
          /\ \A k \in 1..Len(requests) : requests[k].replay_id = <<>>)

\* C25 witness: the first request and a periodic request have been yielded.
C25_Witness ==
  /\ Len(requests) = 2
  /\ gpc = "loop"
  /\ ~stop

\* C26: with stop set, the wait of the request generator can return at
\* once; a step the generator takes with stop set ends it without a
\* request; an ended generator stays ended and yields nothing.
C26_StopEndsGenerator ==
  /\ []((gpc = "waiting" /\ stop) => ENABLED GenWake)
  /\ [][(stop /\ gpc \in {"loop", "waiting"} /\ gpc' /= gpc) =>
          (gpc' = "done" /\ requests' = requests /\ sent' = sent)]_svars
  /\ [][gpc = "done" =>
          (gpc' = "done" /\ requests' = requests /\ sent' = sent)]_svars

\* C26 witness: the generator, waiting after its second request, was woken
\* by stop and has ended while the handler has not yet cancelled the call.
C26_Witness ==
  /\ gpc = "done"
  /\ stop
  /\ sent = MaxReq
  /\ hpc = "cancel"
  /\ callState = "active"

\* C27: a periodic request is yielded only after one wait of the
\* generator and after a response without events was received since the
\* request before it.
C27_RequestAfterKeepalive ==
  [][(sent >= 1 /\ sent' > sent) => (gpc = "waiting" /\ keepalive)]_vars

\* C28: whatever the interleaving of the signal with the consumer thread,
\* no Subscribe call is running once the channel is closed (a call started
\* before is ended by on_shutdown, also when its handle was not yet in the
\* holder), a call is started on an open channel only, and no call is
\* running when the consumer thread has ended or the supervisor returned.
C28_NoCallLeftRunning ==
  /\ [](channel = "closed" => callState /= "active")
  /\ [][(callState /= "active" /\ callState' = "active") => channel = "open"]_svars
  /\ []((cpc = "exited" \/ mpc = "returned") => callState /= "active")

\* C28 witness: on_shutdown ran before the consumer stored the handle of
\* the call it had started; the call was ended when the channel closed.
C28_Witness ==
  /\ stop
  /\ ~holder
  /\ cpc = "store"
  /\ channel = "closed"
  /\ callState = "cancelled"

\* C29: a topic whose fetch raised, also after events of it were received,
\* has no event in the batch and no candidate checkpoint, and
\* cursor_store.set is not called for it in the cycle.
C29_FailedFetchLeavesNothing ==
  \A T \in TopicSet :
    outcome[T] = "error" =>
      /\ EventsOf(T) = {}
      /\ latest[T] = None
      /\ T \notin SetTopics

\* C29 witness: the cursor loop is over in a cycle in which the fetch of a
\* topic raised after two of its events were received, while another topic
\* was flushed and checkpointed.
C29_Witness ==
  /\ CursorLoopDone
  /\ SetTopics /= {}
  /\ \E T \in TopicSet : outcome[T] = "error" /\ remote[T].delivered = 2

\* C30: the supervisor returns before subscribing (topic not available:
\* no thread, no call, no request) or after stop was set, and not
\* otherwise.  Only the signal handler sets stop.  A call that has ended is
\* not started again and an ended consumer thread stays ended and persists
\* nothing; while stop is not set the supervisor is in its wait loop.
C30_NoRestartAfterError ==
  /\ [](mpc = "unavailable" => (cpc = "unstarted" /\ callState = "none" /\ sent = 0))
  /\ [](mpc = "returned" => stop)
  /\ [][stop' /= stop => (hpc = "set" /\ stop')]_svars
  /\ [][(callState /= "active" /\ callState' = "active") => callState = "none"]_svars
  /\ [][cpc = "exited" => (cpc' = "exited" /\ persisted' = persisted)]_svars
  /\ []((cpc = "exited" /\ ~stop) => mpc = "wait")

\* C30 witness: the stream failed with a status of the transport after an
\* event was persisted; the consumer thread has ended, stop is not set, no
\* signal has arrived and the supervisor waits.
C30_Witness ==
  /\ cpc = "exited"
  /\ err = "UNAVAILABLE"
  /\ verdict = "error"
  /\ ~stop
  /\ signals = 0
  /\ mpc = "wait"
  /\ persisted /= {}

\* The fetch of topic T returned in this cycle and every envelope of its
\* response was skipped: envelopes were delivered, none became an event.
AllSkipped(T) ==
  /\ pc \in {"topic", "flush", "upload", "cursors"}
  /\ ~mock_mode
  /\ outcome[T] = "ok"
  /\ remote[T].delivered >= 1
  /\ EventsOf(T) = {}

\* C31: a topic whose envelopes were all skipped has no candidate
\* checkpoint and no cursor_store.set call in the cycle, and its stored
\* checkpoint is still the one its request was built from, so the next
\* cycle builds the same request; this holds in every cycle.
C31_AllSkippedNoProgress ==
  \A T \in TopicSet :
    AllSkipped(T) =>
      /\ latest[T] = None
      /\ T \notin SetTopics
      /\ remote[T].irregular = remote[T].delivered
      /\ issued[T] = Some(FetchRequest(T, CursorGet(cursors, T)))

\* C31 witness: at the end of the cursor loop, a topic with a stored
\* checkpoint whose one delivered envelope was skipped; the checkpoint is
\* the one of the request, while another topic was checkpointed.
C31_Witness ==
  /\ CursorLoopDone
  /\ SetTopics /= {}
  /\ \E T \in TopicSet :
       /\ AllSkipped(T)
       /\ CursorGet(cursors, T) /= None
       /\ issued[T][1].replay_preset = "CUSTOM"
       /\ issued[T][1].replay_id = CursorGet(cursors, T)[1]

\* The stored checkpoint of topic T is the zero-length byte string.
EmptyCheckpoint(table, T) == CursorGet(table, T) = Some(<<>>)

\* C33: while the stored checkpoint of a topic is the zero-length byte
\* string, the request issued for the topic is an EARLIEST request with no
\* replay id, and the zero-length value is stored only by the cursor loop
\* for a topic whose last collected event carries an empty replay id.
C33_EmptyCheckpointIsNone ==
  /\ [](\A T \in TopicSet :
         (/\ pc \in {"topic", "flush", "upload"}
          /\ issued[T] /= None
          /\ EmptyCheckpoint(cursors, T)) =>
            /\ issued[T][1].replay_preset = "EARLIEST"
            /\ issued[T][1].replay_id = <<>>)
  /\ [][\A T \in TopicSet :
         (EmptyCheckpoint(cursors', T) /\ ~EmptyCheckpoint(cursors, T)) =>
           /\ pc = "cursors"
           /\ OfTopic(collected, T) /= <<>>
           /\ Last(OfTopic(collected, T)).replay_id = <<>>]_vars

\* C33 witness: a later cycle in which the stored checkpoint of a topic
\* is the zero-length byte string, events of the topic are already in the
\* database, and the request issued for the topic is EARLIEST.
C33_Witness ==
  \E T \in TopicSet :
    /\ pc \in {"topic", "flush", "upload"}
    /\ EmptyCheckpoint(cursors, T)
    /\ \E row \in stored : row.topic = T
    /\ issued[T] /= None
    /\ issued[T][1].replay_preset = "EARLIEST"

\* The consumer has left the loop over the stream.
LoopLeft == cpc \in {"finally", "exited"}

\* C32: a consumer that finds stop set at the head of a response leaves
\* the loop without touching the response, and after leaving the loop it
\* receives no response, resolves no schema and persists nothing; while
\* the events of a response are processed with stop set, the loop goes on
\* to the next event and a decodable event is persisted (unless its schema
\* fetch or persist_event raises).
C32_StopOnlyAtResponseBoundary ==
  /\ [][(cpc = "check_stop" /\ stop /\ cpc' /= cpc) =>
          /\ cpc' = "finally"
          /\ <<persisted, attempts, cache, inbox>>' = <<persisted, attempts, cache, inbox>>]_svars
  /\ [][(stop /\ LoopLeft) =>
          /\ LoopLeft'
          /\ <<persisted, attempts, cache, nextPos>>' = <<persisted, attempts, cache, nextPos>>]_svars
  /\ [][(EventHandled /\ stop) => LoopGoesOn]_svars
  /\ [][(EventHandled /\ stop /\ inbox[ei].kind = "ok") =>
          \/ persisted' = persisted \cup {inbox[ei].pos}
          \/ sfaults' > sfaults]_svars

\* C32 witness: the consumer left the loop on the stop check with a
\* response of two decodable events in hand, neither of them persisted,
\* and no stream error.
C32_Witness ==
  /\ stop
  /\ LoopLeft
  /\ err = "none"
  /\ Len(inbox) = 2
  /\ \A i \in 1..2 : inbox[i].kind = "ok" /\ inbox[i].pos \notin persisted

\* A state of the second case of C32: stop is set while the consumer is at
\* the second event of a response whose first event it has persisted.
StopDuringResponse ==
  /\ stop
  /\ cpc = "proc"
  /\ ei = 2
  /\ inbox[1].kind = "ok"
  /\ inbox[1].pos \in persisted

====
